---- MODULE Spec2Model ----
(***************************************************************************)
(* Model of src/src/extension.ts (mc-coordinate-completion): the two       *)
(* coordinate converters, the two regular expressions that scan a          *)
(* selection, the completion provider and the convertCoordinates command.  *)
(* Texts are TLA+ strings; positions are 1-based inside the operators and  *)
(* 0-based (as in the source) in every recorded index and range.           *)
(* A document is one line of text: the command addresses ranges with       *)
(* Position.translate(0, n), which only moves inside a line.               *)
(***************************************************************************)
EXTENDS Integers, Sequences, FiniteSets, TLC

(***************************************************************************)
(* Bounds of the model.                                                    *)
(***************************************************************************)
\* number of pieces a document is assembled from
MaxPieces == 3
\* largest integer part of a literal handed to the converters alone
MaxNat == 1
\* how often the command is invoked on the same editor
MaxRuns == 2

(***************************************************************************)
(* Characters and strings.                                                 *)
(***************************************************************************)
Digits == <<"0", "1", "2", "3", "4", "5", "6", "7", "8", "9">>

\* the character of s at 1-based position i, "" outside s
Ch(s, i) == IF i >= 1 /\ i <= Len(s) THEN SubSeq(s, i, i) ELSE ""

DigitChars == {Digits[d] : d \in 1..10}

IsDigit(c) == c \in DigitChars

DigitVal(c) == (CHOOSE d \in 1..10 : Digits[d] = c) - 1

\* \s of the regular expressions, which is also the white space parseInt
\* skips: tab, line feed, vertical tab, form feed, carriage return, space,
\* U+00A0, U+1680 and U+FEFF.  The other members of the class (U+2000 to
\* U+200A, U+2028, U+2029, U+202F, U+205F, U+3000) cannot be written in a
\* TLA+ string, so no text of the model holds them.
SpaceChars == {"\t", "\n", "", "\f", "\r", " ", " ", " ", "﻿"}

IsSpace(c) == c \in SpaceChars

\* s.startsWith(p, i - 1)
StartsWithAt(s, p, i) ==
    /\ i >= 1
    /\ i + Len(p) - 1 <= Len(s)
    /\ SubSeq(s, i, i + Len(p) - 1) = p

\* fileName.endsWith(suffix)
EndsWith(s, suffix) ==
    /\ Len(suffix) <= Len(s)
    /\ SubSeq(s, Len(s) - Len(suffix) + 1, Len(s)) = suffix

\* the element of a set of one element; a value is handed on through such
\* a set where it is computed once and used several times
Only(S) == CHOOSE r \in S : TRUE

RECURSIVE RunEnd(_, _, _)
\* first position >= i of s whose character is not in the class C; a run
\* is crossed 64 or 8 characters at a time where it is that long
RunEnd(s, i, C) ==
    IF i + 63 <= Len(s) /\ \A h \in i..(i + 63) : Ch(s, h) \in C
    THEN RunEnd(s, i + 64, C)
    ELSE IF i + 7 <= Len(s) /\ \A h \in i..(i + 7) : Ch(s, h) \in C
    THEN RunEnd(s, i + 8, C)
    ELSE IF Ch(s, i) \in C THEN RunEnd(s, i + 1, C)
    ELSE i

\* first position >= i of s that holds no decimal digit
DigitsEnd(s, i) == RunEnd(s, i, DigitChars)

\* first position >= i of s that holds no white space
SpacesEnd(s, i) == RunEnd(s, i, SpaceChars)

(***************************************************************************)
(* Natural numbers of any size, as needed to follow the double-precision   *)
(* numbers of the program beyond the integers of TLC.  A natural is the    *)
(* sequence of its digits in radix 10000, most significant first, <<>>     *)
(* being zero.                                                             *)
(***************************************************************************)
\* 2^53, 2^54 and 2^70
Two53 == <<9007, 1992, 5474, 992>>
Two54 == <<1, 8014, 3985, 948, 1984>>
Two70 == <<11, 8059, 1620, 7174, 1130, 3424>>

\* a without its leading zeros
BigTrim(a) ==
    IF \A i \in 1..Len(a) : a[i] = 0 THEN <<>>
    ELSE SubSeq(a, CHOOSE i \in 1..Len(a) :
                       a[i] # 0 /\ \A j \in 1..(i - 1) : a[j] = 0, Len(a))

BigLt(a, b) ==
    \/ Len(a) < Len(b)
    \/ /\ Len(a) = Len(b)
       /\ \E i \in 1..Len(a) : a[i] < b[i] /\ \A j \in 1..(i - 1) : a[j] = b[j]

BigLe(a, b) == a = b \/ BigLt(a, b)

\* digit k of a counted from the least significant one, 0 beyond a
Limb(a, k) == IF k <= Len(a) THEN a[Len(a) - k + 1] ELSE 0

\* the carry into digit k of a + b
CarryIn(a, b, k) ==
    \E j \in 1..(k - 1) :
       /\ Limb(a, j) + Limb(b, j) >= 10000
       /\ \A h \in (j + 1)..(k - 1) : Limb(a, h) + Limb(b, h) = 9999

BigSum(a, b, n) ==
    [i \in 1..n |->
        (Limb(a, n - i + 1) + Limb(b, n - i + 1)
           + (IF CarryIn(a, b, n - i + 1) THEN 1 ELSE 0)) % 10000]

BigAdd(a, b) == BigTrim(BigSum(a, b, (IF Len(a) > Len(b) THEN Len(a) ELSE Len(b)) + 1))

\* the borrow taken from digit k of a - b
BorrowIn(a, b, k) ==
    \E j \in 1..(k - 1) :
       /\ Limb(a, j) < Limb(b, j)
       /\ \A h \in (j + 1)..(k - 1) : Limb(a, h) = Limb(b, h)

\* a - b for a >= b
BigSub(a, b) ==
    BigTrim([i \in 1..Len(a) |->
                (Limb(a, Len(a) - i + 1) - Limb(b, Len(a) - i + 1)
                   - (IF BorrowIn(a, b, Len(a) - i + 1) THEN 1 ELSE 0) + 10000) % 10000])

RemStep(r, x, d) == (r * 10000 + x) % d

\* digit i of a from the most significant one, 0 before a
Lead(a, i) == IF i >= 1 THEN a[i] ELSE 0

\* the first i digits of a modulo d, a power of two up to 2^16: 10000^4 is
\* a multiple of d, so four digits decide
BigRem(a, i, d) ==
    RemStep(RemStep(RemStep(Lead(a, i - 3) % d, Lead(a, i - 2), d),
                    Lead(a, i - 1), d), Lead(a, i), d)

\* a divided by d, a power of two up to 2^16
BigDiv(a, d) ==
    BigTrim([i \in 1..Len(a) |-> (BigRem(a, i - 1, d) * 10000 + a[i]) \div d])

RECURSIVE MulLimbs(_, _, _, _, _)

MulCat(left, right) == [limbs |-> left.limbs \o right.limbs, carry |-> left.carry]

\* the digits l..mid of a times m plus the carry of the product right of
\* the digits after them, joined to it
MulJoin(a, l, mid, m, right) ==
    Only({MulCat(left, right) : left \in {MulLimbs(a, l, mid, m, right.carry)}})

\* the digits l..r of a times m plus c: the digits and the carry out
MulLimbs(a, l, r, m, c) ==
    IF l = r
    THEN [limbs |-> <<(a[l] * m + c) % 10000>>, carry |-> (a[l] * m + c) \div 10000]
    ELSE Only({MulJoin(a, l, (l + r) \div 2, m, right) :
                  right \in {MulLimbs(a, (l + r) \div 2 + 1, r, m, c)}})

MulTop(p) == BigTrim(<<p.carry \div 10000, p.carry % 10000>> \o p.limbs)

\* a * m + c for m and c up to 2^16
BigMulAdd(a, m, c) ==
    IF a = <<>> THEN BigTrim(<<c \div 10000, c % 10000>>)
    ELSE Only({MulTop(p) : p \in {MulLimbs(a, 1, Len(a), m, c)}})

RECURSIVE Scale(_, _)
\* m * 2^e: up to 16 doublings at once, more in two halves
Scale(m, e) ==
    IF e <= 16 THEN BigMulAdd(m, 2 ^ e, 0)
    ELSE Only({Scale(w, e - e \div 2) : w \in {Scale(m, e \div 2)}})

Pad4(n) ==
    Digits[(n \div 1000) + 1] \o Digits[((n \div 100) % 10) + 1]
      \o Digits[((n \div 10) % 10) + 1] \o Digits[(n % 10) + 1]

RECURSIVE LimbsText(_, _, _)
LimbsText(a, l, r) ==
    IF l = r THEN Pad4(a[l])
    ELSE LimbsText(a, l, (l + r) \div 2) \o LimbsText(a, (l + r) \div 2 + 1, r)

UnpadText(t) == SubSeq(t, RunEnd(t, 1, {"0"}), Len(t))

\* the decimal notation of a
BigToString(a) == IF a = <<>> THEN "0" ELSE UnpadText(LimbsText(a, 1, Len(a)))

HexDigits == <<"0", "1", "2", "3", "4", "5", "6", "7", "8", "9",
               "a", "b", "c", "d", "e", "f">>
HexUpper == <<"0", "1", "2", "3", "4", "5", "6", "7", "8", "9",
              "A", "B", "C", "D", "E", "F">>

HexChars == {HexDigits[d] : d \in 1..16} \cup {HexUpper[d] : d \in 1..16}

IsHex(c) == c \in HexChars

HexVal(c) == (CHOOSE d \in 1..16 : HexDigits[d] = c \/ HexUpper[d] = c) - 1

HexEnd(s, i) == RunEnd(s, i, HexChars)

RECURSIVE ChunkValue(_, _, _, _, _)
\* value in the radix of the at most four digits s[i..j-1], continuing acc
ChunkValue(s, i, j, radix, acc) ==
    IF i >= j THEN acc
    ELSE ChunkValue(s, i + 1, j, radix, acc * radix + HexVal(Ch(s, i)))

\* the decimal digits s[z..j-1] as a natural
DecLimbs(s, z, j) ==
    [t \in 1..((j - z + 3) \div 4) |->
        ChunkValue(s, IF j - 4 * ((j - z + 3) \div 4 - t) - 4 < z THEN z
                      ELSE j - 4 * ((j - z + 3) \div 4 - t) - 4,
                   j - 4 * ((j - z + 3) \div 4 - t), 10, 0)]

RECURSIVE HexLimbs(_, _, _)
\* the hexadecimal digits s[i..j-1] as a natural: up to four digits at
\* once, more as the two halves joined
HexLimbs(s, i, j) ==
    IF j - i <= 4
    THEN Only({BigTrim(<<c \div 10000, c % 10000>>) : c \in {ChunkValue(s, i, j, 16, 0)}})
    ELSE Only({BigAdd(Scale(left, 4 * (j - i - (j - i) \div 2)), right) :
                  left \in {HexLimbs(s, i, i + (j - i) \div 2)},
                  right \in {HexLimbs(s, i + (j - i) \div 2, j)}})

(***************************************************************************)
(* Numbers.  A number of the program is a double; the ones it computes     *)
(* are NaN, the two infinities and the doubles that are integers:          *)
(* [kind, neg, mag] with kind "nan", "inf" or "fin", the sign, and the     *)
(* magnitude as a natural.  Zero carries no sign: -0 and 0 compare equal   *)
(* and are both written "0".                                               *)
(***************************************************************************)
NaN == [kind |-> "nan", neg |-> FALSE, mag |-> <<>>]

Infinity(neg) == [kind |-> "inf", neg |-> neg, mag |-> <<>>]

Finite(neg, mag) == [kind |-> "fin", neg |-> neg /\ mag # <<>>, mag |-> mag]

\* one step of the halving of v: by 2^16 from 2^70 on, by 2 from 2^54 on,
\* e counting the halvings and sticky recording a one dropped
ShrinkStep(s) ==
    IF BigLe(Two70, s.v)
    THEN [v |-> BigDiv(s.v, 65536), e |-> s.e + 16,
          sticky |-> s.sticky \/ BigRem(s.v, Len(s.v), 65536) # 0]
    ELSE IF BigLe(Two54, s.v)
    THEN [v |-> BigDiv(s.v, 2), e |-> s.e + 1,
          sticky |-> s.sticky \/ s.v[Len(s.v)] % 2 = 1]
    ELSE s

RECURSIVE ShrinkSteps(_, _)
\* n steps of the halving, taken in two halves
ShrinkSteps(s, n) ==
    IF BigLt(s.v, Two54) THEN s
    ELSE IF n = 1 THEN Only({ShrinkStep(t) : t \in {s}})
    ELSE Only({ShrinkSteps(t, n - n \div 2) : t \in {ShrinkSteps(s, n \div 2)}})

\* v, of at most 312 decimal digits, halved until it is below 2^54: what
\* is left, the number e of halvings, and whether a one was dropped
\* before the last halving.  80 steps suffice: 10^312 < 2^(70 + 16 * 61).
Shrink(v) == ShrinkSteps([v |-> v, e |-> 0, sticky |-> FALSE], 80)

\* the 53 leading bits of the 54-bit v, rounded to nearest, ties to even
Mantissa(half, odd, sticky) ==
    Only({IF odd /\ (sticky \/ h[Len(h)] % 2 = 1) THEN BigAdd(h, <<1>>) ELSE h :
             h \in {half}})

\* the double m * 2^e for a mantissa m up to 2^53
Double(neg, m, e) ==
    IF e > 971 \/ (e = 971 /\ m = Two53) THEN Infinity(neg)
    ELSE Only({Finite(neg, v) : v \in {Scale(m, e)}})

Rounded(neg, s) ==
    Only({Double(neg, m, s.e + 1) :
             m \in {Mantissa(BigDiv(s.v, 2), s.v[Len(s.v)] % 2 = 1, s.sticky)}})

\* the double nearest to the natural v, with the sign
ToDouble(neg, v) ==
    IF BigLt(v, Two53) THEN Finite(neg, v)
    ELSE IF Len(v) > 78 THEN Infinity(neg)
    ELSE Only({Rounded(neg, s) : s \in {Shrink(v)}})

\* the value of the decimal digits s[i..j-1], z being the first of them
\* that is not a zero: more than 309 digits are beyond every double
DecimalFrom(s, z, j, neg) ==
    IF j - z > 309 THEN Infinity(neg)
    ELSE Only({ToDouble(neg, v) : v \in {DecLimbs(s, z, j)}})

\* value of the decimal digits s[i..j-1]
DigitsValue(s, i, j, neg) ==
    Only({DecimalFrom(s, z, j, neg) : z \in {RunEnd(SubSeq(s, 1, j - 1), i, {"0"})}})

HexFrom(s, z, j, neg) ==
    IF j - z > 256 THEN Infinity(neg)
    ELSE Only({ToDouble(neg, v) : v \in {HexLimbs(s, z, j)}})

\* value of the hexadecimal digits s[i..j-1]
HexValue(s, i, j, neg) ==
    Only({HexFrom(s, z, j, neg) : z \in {RunEnd(SubSeq(s, 1, j - 1), i, {"0"})}})

\* parseInt after the sign: a 0x prefix selects radix 16; NaN when the run
\* of digits is empty
ParseSigned(s, neg, p1) ==
    IF StartsWithAt(s, "0x", p1) \/ StartsWithAt(s, "0X", p1)
    THEN Only({IF e = p1 + 2 THEN NaN ELSE HexValue(s, p1 + 2, e, neg) :
                  e \in {HexEnd(s, p1 + 2)}})
    ELSE Only({IF e = p1 THEN NaN ELSE DigitsValue(s, p1, e, neg) :
                  e \in {DigitsEnd(s, p1)}})

\* parseInt after the leading white space: an optional sign
ParseFrom(s, p0) ==
    ParseSigned(s, Ch(s, p0) = "-", IF Ch(s, p0) \in {"-", "+"} THEN p0 + 1 ELSE p0)

\* parseInt(s) with no radix: leading white space, a sign, a 0x prefix,
\* then the longest run of digits; NaN when that run is empty
parseInt(s) == ParseFrom(s, SpacesEnd(s, 1))

\* |a| < |b| for numbers that are not NaN
MagLt(a, b) ==
    \/ a.kind = "fin" /\ b.kind = "inf"
    \/ a.kind = "fin" /\ b.kind = "fin" /\ BigLt(a.mag, b.mag)

GtOf(a, b) ==
    /\ a.kind # "nan"
    /\ b.kind # "nan"
    /\ \/ ~a.neg /\ b.neg
       \/ ~a.neg /\ ~b.neg /\ MagLt(b, a)
       \/ a.neg /\ b.neg /\ MagLt(a, b)

\* a > b on numbers: false when either is NaN
NumGt(a, b) == Only({GtOf(x, y) : x \in {a}, y \in {b}})

\* a - b on finite numbers: the exact difference, rounded to a double
FiniteSub(a, b) ==
    IF a.mag = <<>> THEN Finite(~b.neg, b.mag)
    ELSE IF b.mag = <<>> THEN a
    ELSE IF a.neg # b.neg
    THEN Only({ToDouble(a.neg, v) : v \in {BigAdd(a.mag, b.mag)}})
    ELSE IF BigLt(a.mag, b.mag)
    THEN Only({ToDouble(~a.neg, v) : v \in {BigSub(b.mag, a.mag)}})
    ELSE Only({ToDouble(a.neg, v) : v \in {BigSub(a.mag, b.mag)}})

\* a - b on numbers
SubOf(a, b) ==
    IF a.kind = "nan" \/ b.kind = "nan" THEN NaN
    ELSE IF a.kind = "inf"
    THEN IF b.kind = "inf" /\ a.neg = b.neg THEN NaN ELSE a
    ELSE IF b.kind = "inf" THEN Infinity(~b.neg)
    ELSE FiniteSub(a, b)

\* a - b on numbers: NaN from NaN and from two like infinities
NumSub(a, b) == Only({SubOf(x, y) : x \in {a}, y \in {b}})

RECURSIVE IntText(_)
\* the decimal notation of a small natural
IntText(n) ==
    IF n < 10 THEN Digits[n + 1]
    ELSE IntText(n \div 10) \o Digits[(n % 10) + 1]

\* v with its last n decimal digits set to zero
CutDigits(v, n) ==
    [i \in 1..Len(v) |->
        IF i > Len(v) - n \div 4 THEN 0
        ELSE IF i = Len(v) - n \div 4 THEN (v[i] \div (10 ^ (n % 4))) * (10 ^ (n % 4))
        ELSE v[i]]

\* 10^n
PowerOfTen(n) == <<10 ^ (n % 4)>> \o [i \in 1..(n \div 4) |-> 0]

\* the double nearest to the natural c is v
RoundsTo(c, v) == Only({ToDouble(FALSE, w) : w \in {c}}) = Finite(FALSE, v)

\* of the two naturals lo <= v <= hi that round to v (or the one that
\* does), the nearer, and on a tie lo when loEven
NearerOf(loGood, hiGood, below, above, lo, hi, loEven) ==
    IF ~hiGood THEN lo
    ELSE IF ~loGood THEN hi
    ELSE IF BigLt(below, above) THEN lo
    ELSE IF BigLt(above, below) THEN hi
    ELSE IF loEven THEN lo ELSE hi

Nearer(v, lo, hi, loEven) ==
    Only({NearerOf(loGood, hiGood, below, above, lo, hi, loEven) :
             loGood \in {RoundsTo(lo, v)}, hiGood \in {RoundsTo(hi, v)},
             below \in {BigSub(v, lo)}, above \in {BigSub(hi, v)}})

\* v cut to k significant digits, of its n, rounds to v, or does so with
\* one more in the last place
Enough(v, n, k) ==
    \E lo \in {BigTrim(CutDigits(v, n - k))} :
       \/ RoundsTo(lo, v)
       \/ RoundsTo(BigAdd(lo, PowerOfTen(n - k)), v)

\* the least number of significant digits that tell v from every other
\* double; 17 always do
Least(G) == CHOOSE k \in G : \A h \in G : k <= h

FewestDigits(v, n) == Only({Least(G) : G \in {{k \in 1..17 : k = 17 \/ Enough(v, n, k)}}})

\* the natural with the fewest significant digits that rounds to the
\* double v, whose notation is d
ShortestFrom(v, lo, unit, loEven) ==
    Only({Nearer(v, lo, hi, loEven) : hi \in {BigAdd(lo, unit)}})

ShortestAt(v, d, k) ==
    Only({ShortestFrom(v, lo, PowerOfTen(Len(d) - k), DigitVal(Ch(d, k)) % 2 = 0) :
             lo \in {BigTrim(CutDigits(v, Len(d) - k))}})

Shortest(v, d) == Only({ShortestAt(v, d, k) : k \in {FewestDigits(v, Len(d))}})

\* the last position of d that holds no zero
LastDigit(d) == CHOOSE p \in 1..Len(d) : Ch(d, p) # "0" /\ \A q \in (p + 1)..Len(d) : Ch(d, q) = "0"

\* the digits d written with an exponent: one digit, the point and the
\* rest of the significant digits when there are any, then e+ and the
\* exponent
Exponential(d, p) ==
    Ch(d, 1) \o (IF p > 1 THEN "." \o SubSeq(d, 2, p) ELSE "")
      \o "e+" \o IntText(Len(d) - 1)

\* the digits d of up to 21 places as they are, longer ones with an exponent
Notation(d) == IF Len(d) <= 21 THEN d ELSE Exponential(d, LastDigit(d))

LongNotation(v, d) == Only({Notation(t) : t \in {BigToString(Shortest(v, d))}})

\* Number::toString of the integer double v: all its digits up to 2^53,
\* beyond that the fewest digits that identify it
MagToString(v) ==
    IF BigLe(v, Two53) THEN BigToString(v)
    ELSE Only({LongNotation(v, d) : d \in {BigToString(v)}})

TextOf(n) ==
    IF n.kind = "nan" THEN "NaN"
    ELSE IF n.kind = "inf" THEN (IF n.neg THEN "-Infinity" ELSE "Infinity")
    ELSE IF n.neg THEN "-" \o MagToString(n.mag)
    ELSE MagToString(n.mag)

\* `${n}` for a number n: NaN, Infinity with its sign, or the digits
NumToString(n) == Only({TextOf(x) : x \in {n}})

(***************************************************************************)
(* The converters.                                                         *)
(***************************************************************************)
\* the point converter leaving the keys out
convertToTargetSelectorArgs_Bare(selector, x, y, z) ==
    selector \o "[" \o x \o " " \o y \o " " \o z \o "]"

convertToTargetSelectorArgs(selector, x, y, z) ==
    selector \o "[x=" \o x \o ",y=" \o y \o ",z=" \o z \o "]"

\* AxisOf without the swap
AxisOf_NoSwap(a1, a2, n1, n2) == [start |-> a1, d |-> NumSub(n2, n1)]

\* AxisOf swapping the numbers and not the texts
AxisOf_NoTextSwap(a1, a2, n1, n2) ==
    IF NumGt(n1, n2)
    THEN [start |-> a1, d |-> NumSub(n1, n2)]
    ELSE [start |-> a1, d |-> NumSub(n2, n1)]

\* AxisOf subtracting the wrong way round when it does not swap
AxisOf_Reversed(a1, a2, n1, n2) ==
    IF NumGt(n1, n2)
    THEN [start |-> a2, d |-> NumSub(n1, n2)]
    ELSE [start |-> a1, d |-> NumSub(n1, n2)]

\* one axis of the ranged converter, the two texts parsed to n1 and n2:
\* when the first exceeds the second, numbers and texts are swapped
\* together; then the delta is second minus first
AxisOf(a1, a2, n1, n2) ==
    IF NumGt(n1, n2)
    THEN [start |-> a2, d |-> NumSub(n1, n2)]
    ELSE [start |-> a1, d |-> NumSub(n2, n1)]

RangeAxis(a1, a2) ==
    Only({AxisOf(a1, a2, n1, n2) : n1 \in {parseInt(a1)}, n2 \in {parseInt(a2)}})

\* the template literal of the ranged converter
RangeText(selector, ax, ay, az) ==
    selector \o "[x=" \o ax.start \o ",y=" \o ay.start \o ",z=" \o az.start
      \o ",dx=" \o NumToString(ax.d) \o ",dy=" \o NumToString(ay.d)
      \o ",dz=" \o NumToString(az.d) \o "]"

convertToTargetSelectorArgsWithRange(selector, x1, y1, z1, x2, y2, z2) ==
    RangeText(selector, RangeAxis(x1, x2), RangeAxis(y1, y2), RangeAxis(z1, z2))

(***************************************************************************)
(* The two regular expressions.  A match attempt at a position is          *)
(* deterministic: a numeric literal is always followed by \s or "]", so    *)
(* the greedy choice for "-?", "\d+" and "(?:\.\d+)?" is the only one that *)
(* can succeed, and no keyword is a prefix of another.  An operator that   *)
(* matches a piece of the pattern returns the position after it, or 0.     *)
(***************************************************************************)
SelectorLetters == {"e", "a", "p", "r", "s", "c"}

Keywords == <<"fill", "setblock", "tp", "teleport", "summon", "execute", "clone">>

\* (?:\.\d+)? after the integer part that ends before e1, e2 being the end
\* of the digits after the character at e1
NumberFrac(e1, e2) == IF e2 > e1 + 1 THEN e2 ELSE e1

\* \d+(?:\.\d+)? from p1, e1 being the end of the digits at p1
NumberInt(s, p1, e1) ==
    IF e1 = p1 THEN 0
    ELSE IF Ch(s, e1) = "." THEN NumberFrac(e1, DigitsEnd(s, e1 + 1))
    ELSE e1

NumberFrom(s, p1) == NumberInt(s, p1, DigitsEnd(s, p1))

\* -?\d+(?:\.\d+)? at position i
NumberEnd(s, i) == NumberFrom(s, IF Ch(s, i) = "-" THEN i + 1 ELSE i)

\* (?:\/(?:fill|setblock|tp|teleport|summon|execute|clone)\s+) at position i
KeywordFits(s, i, k) ==
    /\ StartsWithAt(s, Keywords[k], i + 1)
    /\ IsSpace(Ch(s, i + 1 + Len(Keywords[k])))

KeywordEnd(s, i) ==
    IF Ch(s, i) = "/" /\ \E k \in 1..Len(Keywords) : KeywordFits(s, i, k)
    THEN SpacesEnd(s, i + 1 + Len(Keywords[CHOOSE k \in 1..Len(Keywords) :
                                              KeywordFits(s, i, k)]))
    ELSE 0

NoNumbers == [end |-> 0, caps |-> <<>>]

RECURSIVE NumbersEnd(_, _, _)

\* the literal cap followed by the literals of rest
NumbersJoin(cap, rest) ==
    IF rest.end = 0 THEN NoNumbers
    ELSE [end |-> rest.end, caps |-> <<cap>> \o rest.caps]

\* the literal s[i..e-1], then \s+ up to sp and k - 1 more literals
NumbersRest(s, i, e, sp, k) ==
    IF sp = e THEN NoNumbers
    ELSE NumbersJoin(SubSeq(s, i, e - 1), NumbersEnd(s, sp, k - 1))

\* k literals from i, the first of which ends before e (0: there is none)
NumbersAfter(s, i, k, e) ==
    IF e = 0 THEN NoNumbers
    ELSE IF k = 1
         THEN IF Ch(s, e) = "]"
              THEN [end |-> e + 1, caps |-> <<SubSeq(s, i, e - 1)>>]
              ELSE NoNumbers
    ELSE NumbersRest(s, i, e, SpacesEnd(s, e), k)

\* k literals separated by \s+ and closed by "]", from position i:
\* [end, caps] with the captured literals, end = 0 when there is no match
NumbersEnd(s, i, k) == NumbersAfter(s, i, k, NumberEnd(s, i))

\* the literals after the keyword group, else without the group
MatchEither(withKw, s, p, n) ==
    IF withKw.end > 0 THEN withKw ELSE NumbersEnd(s, p, n)

\* what follows "[" at p, kw being the end of the keyword group (0: none)
MatchBody(s, p, n, kw) ==
    IF kw > 0 THEN MatchEither(NumbersEnd(s, kw, n), s, p, n)
    ELSE NumbersEnd(s, p, n)

\* the pattern with n literals (patternSelector6: n = 6, patternSelector3:
\* n = 3) tried at position i
MatchAt(s, i, n) ==
    IF Ch(s, i) = "@" /\ Ch(s, i + 1) \in SelectorLetters /\ Ch(s, i + 2) = "["
    THEN MatchBody(s, i + 3, n, KeywordEnd(s, i + 3))
    ELSE NoNumbers

NoMatch == [index |-> -1]

\* the match that the attempt m at position i found
MatchRecord(s, i, m) ==
    [index |-> i - 1,
     full |-> SubSeq(s, i, m.end - 1),
     selector |-> SubSeq(s, i, i + 1),
     caps |-> m.caps,
     lastIndex |-> m.end - 1]

\* the leftmost of the positions where the pattern matches
ExecFirst(s, n, found) ==
    IF found = {} THEN NoMatch
    ELSE LET i == CHOOSE a \in found : \A b \in found : a <= b
         IN MatchRecord(s, i, MatchAt(s, i, n))

\* pattern.exec(s) of a global pattern whose lastIndex is i - 1: the first
\* match at or after it, with its 0-based index, or null.  lastIndex is
\* where the next exec resumes.
ExecFrom(s, i, n) ==
    ExecFirst(s, n, {a \in i..Len(s) : MatchAt(s, a, n).end > 0})

RECURSIVE MatchesFrom(_, _, _)

MatchesNext(s, n, m) ==
    IF m.index < 0 THEN <<>>
    ELSE <<m>> \o MatchesFrom(s, m.lastIndex, n)

\* while ((m = pattern.exec(s)) !== null): the matches in the order found
MatchesFrom(s, lastIndex, n) == MatchesNext(s, n, ExecFrom(s, lastIndex + 1, n))

Matches(s, n) == MatchesFrom(s, 0, n)

\* checkPattern6.test(text) on a fresh pattern
checkPattern6Test(text) == ExecFrom(text, 1, 6).index >= 0

\* the conversion of a match of the pattern with n literals
ConvertMatch(m, n) ==
    IF n = 6
    THEN convertToTargetSelectorArgsWithRange(m.selector, m.caps[1], m.caps[2],
             m.caps[3], m.caps[4], m.caps[5], m.caps[6])
    ELSE convertToTargetSelectorArgs(m.selector, m.caps[1], m.caps[2], m.caps[3])

(***************************************************************************)
(* State.                                                                  *)
(***************************************************************************)
VARIABLES
    fileName,    \* editor.document.fileName
    doc,         \* the text of the document (one line)
    selections,  \* editor.selections: ranges [start, end) of doc, 0-based
    pc,          \* "idle", "applying" (editor.edit pending) or "done"
    edits,       \* the replacements recorded on the editBuilder, in order
    changesMade, \* the command's flag
    applied,     \* what editor.edit resolved to: "none", "ok" or "failed"
    messages,    \* the notifications this invocation has shown, in order
    items,       \* the completion items on show (the provider's last answer)
    asked,       \* whether the provider has been asked since the last command
    run,         \* number of the current invocation of the command
    docBefore,   \* the document as the current invocation found it
    firstDoc,    \* the document as the first invocation found it
    call,        \* a direct call of a converter: [fn, selector, args]
    out          \* what that call returned ("" while it has not)

vars == <<fileName, doc, selections, pc, edits, changesMade, applied, messages,
          items, asked, run, docBefore, firstDoc, call, out>>

(***************************************************************************)
(* The host's document: text of a selection, application of a replacement. *)
(***************************************************************************)
\* selection.isEmpty
IsEmpty(sel) == sel.start = sel.end

\* document.getText(selection)
GetText(d, sel) == SubSeq(d, sel.start + 1, sel.end)

Clamp(n, len) == IF n < 0 THEN 0 ELSE IF n > len THEN len ELSE n

\* one replacement applied to the buffer as it stands; a range that
\* reaches past the text is cut to it
ApplyEdit(buf, e) ==
    LET a == Clamp(e.start, Len(buf))
        b == Clamp(e.end, Len(buf))
    IN SubSeq(buf, 1, a) \o e.text \o SubSeq(buf, b + 1, Len(buf))

RECURSIVE ApplyEdits(_, _, _)
\* the first k replacements of es applied to buf one after the other
ApplyEdits(buf, es, k) ==
    IF k = 0 THEN buf
    ELSE ApplyEdit(ApplyEdits(buf, es, k - 1), es[k])

(***************************************************************************)
(* The command's two passes over one selection.  A recorded replacement    *)
(* is [start, end, text]; sel, index, n and original are history fields:   *)
(* the selection it comes from, the match's index in the selection text,   *)
(* the pattern (6 or 3) and the matched text.                              *)
(***************************************************************************)
RECURSIVE PassEdits(_, _, _, _, _, _)

\* editBuilder.replace for the match m of the selection sel
RecordedEdit(m, offset, sel, si, n, convertedText) ==
    [start |-> sel.start + m.index + offset,
     end |-> sel.start + m.index + offset + Len(m.full),
     text |-> convertedText,
     sel |-> si, index |-> m.index, n |-> n, original |-> m.full]

\* PassStep that never updates the offset
PassStep_NoOffset(ms, k, offset, sel, si, n, convertedText) ==
    IF n = 3 /\ checkPattern6Test(ms[k].full)
    THEN PassEdits(ms, k + 1, offset, sel, si, n)
    ELSE <<RecordedEdit(ms[k], offset, sel, si, n, convertedText)>>
         \o PassEdits(ms, k + 1, offset, sel, si, n)

\* one turn of the loop of a pass, for match k
PassStep(ms, k, offset, sel, si, n, convertedText) ==
    IF n = 3 /\ checkPattern6Test(ms[k].full)
    THEN PassEdits(ms, k + 1, offset, sel, si, n)
    ELSE <<RecordedEdit(ms[k], offset, sel, si, n, convertedText)>>
         \o PassEdits(ms, k + 1, offset + Len(convertedText) - Len(ms[k].full),
                      sel, si, n)

\* the loop of one pass from match k on, offset being offset6 / offset3
PassEdits(ms, k, offset, sel, si, n) ==
    IF k > Len(ms) THEN <<>>
    ELSE PassStep(ms, k, offset, sel, si, n, ConvertMatch(ms[k], n))

\* the 6-number pass of selection number si
Pass6(d, sel, si) == PassEdits(Matches(GetText(d, sel), 6), 1, 0, sel, si, 6)

\* the 3-number pass of selection number si
Pass3(d, sel, si) == PassEdits(Matches(GetText(d, sel), 3), 1, 0, sel, si, 3)

\* SelectionEdits running the 3-number pass first
SelectionEdits_3First(d, sel, si) ==
    IF IsEmpty(sel) THEN <<>>
    ELSE Pass3(d, sel, si) \o Pass6(d, sel, si)

\* the body of the loop over the selections
SelectionEdits(d, sel, si) ==
    IF IsEmpty(sel) THEN <<>>
    ELSE Pass6(d, sel, si) \o Pass3(d, sel, si)

RECURSIVE CallbackEdits(_, _, _)
\* the editor.edit callback: the selections si.. in turn
CallbackEdits(d, sels, si) ==
    IF si > Len(sels) THEN <<>>
    ELSE SelectionEdits(d, sels[si], si) \o CallbackEdits(d, sels, si + 1)

(***************************************************************************)
(* The completion provider.                                                *)
(***************************************************************************)
\* one completion item: the label with its arrow (U+2192), the kind and
\* the text to insert; index, n and original are history fields.  The
\* item's detail and documentation are Japanese texts shown to the author
\* and read by nothing, and their characters cannot be written in a
\* TLA+ string: they are left out.
CompletionItem(m, n, convertedText) ==
    [label |-> m.full \o " → " \o convertedText,
     kind |-> "Snippet",
     insertText |-> convertedText,
     index |-> m.index, n |-> n, original |-> m.full]

RECURSIVE ItemsOf(_, _, _)
\* the loop of the provider over the matches of one pattern, from match k
ItemsOf(ms, k, n) ==
    IF k > Len(ms) THEN <<>>
    ELSE <<CompletionItem(ms[k], n, ConvertMatch(ms[k], n))>> \o ItemsOf(ms, k + 1, n)

ItemsFor(selectedText) ==
    ItemsOf(Matches(selectedText, 6), 1, 6) \o ItemsOf(Matches(selectedText, 3), 1, 3)

provideCompletionItems(name, d, sels) ==
    IF ~EndsWith(name, ".mcfunction") THEN <<>>
    ELSE IF IsEmpty(sels[1]) THEN <<>>
    ELSE ItemsFor(GetText(d, sels[1]))

(***************************************************************************)
(* Inputs.                                                                 *)
(***************************************************************************)
FileNames == {"a.mcfunction", "a.mcfunction.txt"}

\* the pieces a document is made of; the fourth separates its literals
\* with tabs, form feeds and vertical tabs among the spaces
Pieces == <<"@e[111 200 333 100 222 300]",
            "@s[/teleport  -1.5   2    0.5   -3   2    7]",
            "@a[333 555 2]",
            "@p[/tp \t\f 10 \f 20 \t 30]",
            " @b[1 2 3] @e[x=1,y=2,z=3] @e[1 2] ">>

PieceSeqs == UNION {[1..k -> 1..Len(Pieces)] : k \in 0..MaxPieces}

RECURSIVE Concat(_, _)
\* the first k pieces of ps joined
Concat(ps, k) == IF k = 0 THEN "" ELSE Concat(ps, k - 1) \o Pieces[ps[k]]

\* the selections offered for a document made of the pieces ps: all of it,
\* nothing, all but the first piece, or the first piece and the rest
SelectionChoices(ps) ==
    LET d == Concat(ps, Len(ps))
        cut == IF Len(ps) = 0 THEN 0 ELSE Len(Pieces[ps[1]])
    IN {<<[start |-> 0, end |-> Len(d)]>>, <<[start |-> 0, end |-> 0]>>}
       \cup (IF Len(ps) >= 2
             THEN {<<[start |-> cut, end |-> Len(d)]>>,
                   <<[start |-> 0, end |-> cut], [start |-> cut, end |-> Len(d)]>>}
             ELSE {})

Selectors == {"@e", "@a"}

RECURSIVE Repeat(_, _)
\* t written n times
Repeat(t, n) ==
    IF n = 0 THEN ""
    ELSE IF n = 1 THEN t
    ELSE Repeat(t, n \div 2) \o Repeat(t, n - n \div 2)

\* 10^309, a literal of 310 digits: no double is that large
HugeLiteral == "1" \o Repeat("0", 309)

\* the literals handed to a converter called alone: the integers up to
\* MaxNat, two decimal literals, one of them negative, and the huge one
Literals == {IntText(m) : m \in 0..MaxNat} \cup {"0.5", "-1.5", HugeLiteral}

NoCall == [fn |-> "none", selector |-> "", args |-> <<>>]

(***************************************************************************)
(* Initial states and actions.                                             *)
(***************************************************************************)
Init ==
    /\ fileName \in FileNames
    /\ \E ps \in PieceSeqs :
          /\ doc = Concat(ps, Len(ps))
          /\ selections \in SelectionChoices(ps)
    /\ pc = "idle"
    /\ edits = <<>>
    /\ changesMade = FALSE
    /\ applied = "none"
    /\ messages = <<>>
    /\ items = <<>>
    /\ asked = FALSE
    /\ run = 1
    /\ docBefore = doc
    /\ firstDoc = doc
    /\ call = NoCall
    /\ out = ""

\* the command on a file that is no .mcfunction file: a message, nothing
\* else.  Running a command closes the list of completion items.
ConvertOutOfScope ==
    /\ pc = "idle"
    /\ ~EndsWith(fileName, ".mcfunction")
    /\ messages' = <<"scope">>
    /\ pc' = "done"
    /\ edits' = <<>>
    /\ changesMade' = FALSE
    /\ applied' = "none"
    /\ docBefore' = doc
    /\ items' = <<>>
    /\ asked' = FALSE
    /\ UNCHANGED <<fileName, doc, selections, run, firstDoc, call, out>>

\* the command on a .mcfunction file: the editor.edit callback records the
\* replacements of every selection, and the edit is handed to the host
ConvertCoordinates ==
    /\ pc = "idle"
    /\ EndsWith(fileName, ".mcfunction")
    /\ edits' = CallbackEdits(doc, selections, 1)
    /\ changesMade' = (Len(edits') > 0)
    /\ messages' = <<>>
    /\ applied' = "none"
    /\ pc' = "applying"
    /\ docBefore' = doc
    /\ items' = <<>>
    /\ asked' = FALSE
    /\ UNCHANGED <<fileName, doc, selections, run, firstDoc, call, out>>

\* ThenMessages that reports "nothing" whenever the edit went through
ThenMessages_Always(success, changed) ==
    IF ~success THEN <<"error">> ELSE <<"nothing">>

\* what the completion handler shows
ThenMessages(success, changed) ==
    IF ~success THEN <<"error">>
    ELSE IF ~changed THEN <<"nothing">>
    ELSE <<>>

\* editor.edit resolves, with success or not, and the completion handler runs
EditThen ==
    /\ pc = "applying"
    /\ \E success \in BOOLEAN :
          /\ applied' = IF success THEN "ok" ELSE "failed"
          /\ doc' = IF success THEN ApplyEdits(doc, edits, Len(edits)) ELSE doc
          /\ messages' = messages \o ThenMessages(success, changesMade)
    /\ pc' = "done"
    /\ UNCHANGED <<fileName, selections, edits, changesMade, items, asked, run,
                   docBefore, firstDoc, call, out>>

\* after an edit that went through, the author selects the whole document
\* again for another invocation
SelectAll ==
    /\ pc = "done"
    /\ applied = "ok"
    /\ run < MaxRuns
    /\ selections' = <<[start |-> 0, end |-> Len(doc)]>>
    /\ run' = run + 1
    /\ pc' = "idle"
    /\ UNCHANGED <<fileName, doc, edits, changesMade, applied, messages, items,
                   asked, docBefore, firstDoc, call, out>>

\* the host asks the provider for completion items
ProvideCompletionItems ==
    /\ pc = "idle"
    /\ ~asked
    /\ items' = provideCompletionItems(fileName, doc, selections)
    /\ asked' = TRUE
    /\ UNCHANGED <<fileName, doc, selections, pc, edits, changesMade, applied,
                   messages, run, docBefore, firstDoc, call, out>>

Next ==
    \/ ConvertOutOfScope
    \/ ConvertCoordinates
    \/ EditThen
    \/ SelectAll
    \/ ProvideCompletionItems

Spec == Init /\ [][Next]_vars

(***************************************************************************)
(* The converters called alone, on every tuple of literals.                *)
(***************************************************************************)
InitConv ==
    /\ call \in {[fn |-> "range", selector |-> t, args |-> a] :
                    t \in Selectors, a \in [1..6 -> Literals]}
             \cup {[fn |-> "point", selector |-> t, args |-> a] :
                    t \in Selectors, a \in [1..3 -> Literals]}
    /\ out = ""
    /\ fileName = "a.mcfunction"
    /\ doc = ""
    /\ selections = <<[start |-> 0, end |-> 0]>>
    /\ pc = "idle"
    /\ edits = <<>>
    /\ changesMade = FALSE
    /\ applied = "none"
    /\ messages = <<>>
    /\ items = <<>>
    /\ asked = FALSE
    /\ run = 1
    /\ docBefore = ""
    /\ firstDoc = ""

ConvertRange ==
    /\ call.fn = "range"
    /\ out = ""
    /\ out' = convertToTargetSelectorArgsWithRange(call.selector, call.args[1],
                  call.args[2], call.args[3], call.args[4], call.args[5], call.args[6])
    /\ UNCHANGED <<fileName, doc, selections, pc, edits, changesMade, applied,
                   messages, items, asked, run, docBefore, firstDoc, call>>

ConvertPoint ==
    /\ call.fn = "point"
    /\ out = ""
    /\ out' = convertToTargetSelectorArgs(call.selector, call.args[1],
                  call.args[2], call.args[3])
    /\ UNCHANGED <<fileName, doc, selections, pc, edits, changesMade, applied,
                   messages, items, asked, run, docBefore, firstDoc, call>>

NextConv ==
    \/ ConvertRange
    \/ ConvertPoint

SpecConv == InitConv /\ [][NextConv]_vars

(***************************************************************************)
(* Vocabulary of the properties.                                           *)
(***************************************************************************)
\* the command has recorded its replacements for the current invocation
Recorded == pc \in {"applying", "done"} /\ EndsWith(fileName, ".mcfunction")

\* the replacements recorded for selection number si, in recorded order
EditsOf(si) == SelectSeq(edits, LAMBDA e : e.sel = si)

\* two ranges [start, end) share no character
Disjoint(a, b) == a.end <= b.start \/ b.end <= a.start

RECURSIVE ReplaceFrom(_, _)
\* text from position from on, every match of either pattern replaced by
\* its conversion and every other character kept
ReplaceFrom(text, from) ==
    LET found == {a \in from..Len(text) :
                     MatchAt(text, a, 6).end > 0 \/ MatchAt(text, a, 3).end > 0}
        i == CHOOSE a \in found : \A b \in found : a <= b
        n == IF MatchAt(text, i, 6).end > 0 THEN 6 ELSE 3
        m == MatchRecord(text, i, MatchAt(text, i, n))
    IN IF found = {} THEN SubSeq(text, from, Len(text))
       ELSE SubSeq(text, from, i - 1) \o ConvertMatch(m, n)
              \o ReplaceFrom(text, m.lastIndex + 1)

ReplaceAll(text) == ReplaceFrom(text, 1)

\* the document d with every match inside the selection sel replaced
Expected(d, sel) ==
    SubSeq(d, 1, sel.start) \o ReplaceAll(GetText(d, sel))
      \o SubSeq(d, sel.end + 1, Len(d))

\* the scanner finds nothing in text
NoMatches(text) == Matches(text, 6) = <<>> /\ Matches(text, 3) = <<>>

\* the characters of a value in a converter's output: those of a literal
\* and of a number as a template literal writes it
FieldChars == DigitChars \cup {"-", ".", "+", "e", "N", "a", "I", "n", "f", "i", "t", "y"}

\* the value of key (as ",dx=") in a converter's output
FieldAt(text, p) == SubSeq(text, p, RunEnd(text, p, FieldChars) - 1)

Field(text, key) ==
    FieldAt(text, (CHOOSE i \in 1..Len(text) : StartsWithAt(text, key, i)) + Len(key))

\* t is the decimal notation of a non-negative integer
IsNatText(t) == Len(t) > 0 /\ \A i \in 1..Len(t) : IsDigit(Ch(t, i))

\* An exact integer, of any size: the sign and the magnitude; zero has no
\* sign.
Signed(neg, mag) == [neg |-> neg /\ mag # <<>>, mag |-> mag]

\* the natural that the digits t denote
NatOf(t) == Only({BigTrim(DecLimbs(u, 1, Len(u) + 1)) : u \in {t}})

\* a < b on exact integers
ExactLt(a, b) ==
    \/ a.neg /\ ~b.neg
    \/ ~a.neg /\ ~b.neg /\ BigLt(a.mag, b.mag)
    \/ a.neg /\ b.neg /\ BigLt(b.mag, a.mag)

\* a - b on exact integers
ExactSub(a, b) ==
    IF a.neg # b.neg THEN Signed(a.neg, BigAdd(a.mag, b.mag))
    ELSE IF BigLt(a.mag, b.mag) THEN Signed(~a.neg, BigSub(b.mag, a.mag))
    ELSE Signed(a.neg, BigSub(a.mag, b.mag))

\* where the digits of the literal l start, and where its integer part ends
LitStart(l) == IF Ch(l, 1) = "-" THEN 2 ELSE 1

LitEnd(l) == DigitsEnd(l, LitStart(l))

\* ten times the value of a literal with at most one digit after the point
Tenths(l) ==
    Signed(Ch(l, 1) = "-",
           NatOf(SubSeq(l, LitStart(l), LitEnd(l) - 1)
                   \o (IF Ch(l, LitEnd(l)) = "." THEN Ch(l, LitEnd(l) + 1) ELSE "0")))

\* ten times the value of a literal cut to an integer, toward zero
Truncated(l) ==
    Signed(Ch(l, 1) = "-", NatOf(SubSeq(l, LitStart(l), LitEnd(l) - 1) \o "0"))

\* the exact values of the literals handed to the converters, and the
\* numbers parseInt reads them as
LiteralTenths == [l \in Literals |-> Tenths(l)]

LiteralTruncated == [l \in Literals |-> Truncated(l)]

LiteralParsed == [l \in Literals |-> parseInt(l)]

\* ten times the natural that the text t of digits denotes
TenTimes(t) == Signed(FALSE, NatOf(t \o "0"))

\* the integer part of the literal l has at most 15 digits, so that it
\* and its difference with another such are doubles exactly
Small(l) == LitEnd(l) - LitStart(l) <= 15

\* the ranged converter has returned
Ranged == call.fn = "range" /\ out # ""

DeltaKeys == <<",dx=", ",dy=", ",dz=">>

StartKeys == <<"[x=", ",y=", ",z=">>

(***************************************************************************)
(* C1.  The ranges of the replacements recorded for one selection, both    *)
(* passes together, are pairwise non-overlapping.                          *)
(***************************************************************************)
Cex_C1 ==
    Recorded =>
       \A si \in 1..Len(selections) :
          \A i, j \in 1..Len(EditsOf(si)) :
             i < j => Disjoint(EditsOf(si)[i], EditsOf(si)[j])

(***************************************************************************)
(* C2.  For a selection with exactly one 6-number match and exactly one    *)
(* 3-number match, in either order, two replacements with non-overlapping  *)
(* ranges are recorded, and applying them one after the other in recorded  *)
(* order yields the text with both matches replaced by their conversions   *)
(* and every other character unchanged.                                    *)
(***************************************************************************)
Cex_C2 ==
    Recorded =>
       \A si \in 1..Len(selections) :
          LET text == GetText(docBefore, selections[si])
              E == EditsOf(si)
          IN (Len(Matches(text, 6)) = 1 /\ Len(Matches(text, 3)) = 1) =>
                /\ Len(E) = 2
                /\ Disjoint(E[1], E[2])
                /\ ApplyEdits(docBefore, E, 2) = Expected(docBefore, selections[si])

(***************************************************************************)
(* C3.  Order of endpoints: the ranged converter returns the same string   *)
(* for (A, B) and for (B, A).  As claimed, for every sextuplet of          *)
(* literals (Cex_C3).  As amended, for every sextuplet in which, on each   *)
(* axis, the two literals are the same text or are read by parseInt as     *)
(* different numbers (Thm_C3).                                             *)
(***************************************************************************)
SwappedCall ==
    convertToTargetSelectorArgsWithRange(call.selector, call.args[4], call.args[5],
        call.args[6], call.args[1], call.args[2], call.args[3])

Cex_C3 == Ranged => out = SwappedCall

Thm_C3 ==
    (/\ Ranged
     /\ \A a \in 1..3 : \/ call.args[a] = call.args[a + 3]
                        \/ LiteralParsed[call.args[a]] # LiteralParsed[call.args[a + 3]])
       => out = SwappedCall

Wit_C3 ==
    /\ Ranged
    /\ call.args = <<"1", "-1.5", HugeLiteral, "-1.5", "1", "0">>
    /\ out = SwappedCall
    /\ Field(out, "[x=") = "-1.5"
    /\ Field(out, ",z=") = "0"
    /\ Field(out, ",dz=") = "Infinity"

(***************************************************************************)
(* C4.  When endpoint A is at most endpoint B on each axis, the ranged     *)
(* converter writes A's three literals unchanged as x, y, z and a delta    *)
(* per axis.  As claimed, the delta is B minus A (Cex_C4).  As amended,    *)
(* the delta is parseInt(B) minus parseInt(A) in double precision, as the  *)
(* template literal writes a number; when both integer parts have at most  *)
(* 15 digits that is a non-negative integer, B cut to an integer minus A   *)
(* cut to an integer (Thm_C4).                                             *)
(***************************************************************************)
Ordered ==
    \A a \in 1..3 : ~ExactLt(LiteralTenths[call.args[a + 3]], LiteralTenths[call.args[a]])

StartsKept == \A a \in 1..3 : Field(out, StartKeys[a]) = call.args[a]

Cex_C4 ==
    (Ranged /\ Ordered) =>
       /\ StartsKept
       /\ \A a \in 1..3 :
             /\ IsNatText(Field(out, DeltaKeys[a]))
             /\ TenTimes(Field(out, DeltaKeys[a]))
                  = ExactSub(LiteralTenths[call.args[a + 3]], LiteralTenths[call.args[a]])

Thm_C4 ==
    (Ranged /\ Ordered) =>
       /\ StartsKept
       /\ \A a \in 1..3 :
             /\ Field(out, DeltaKeys[a])
                  = NumToString(NumSub(LiteralParsed[call.args[a + 3]],
                                       LiteralParsed[call.args[a]]))
             /\ (Small(call.args[a]) /\ Small(call.args[a + 3])) =>
                   /\ IsNatText(Field(out, DeltaKeys[a]))
                   /\ TenTimes(Field(out, DeltaKeys[a]))
                        = ExactSub(LiteralTruncated[call.args[a + 3]],
                                   LiteralTruncated[call.args[a]])

Wit_C4 ==
    /\ Ranged
    /\ Ordered
    /\ call.args = <<"-1.5", "0", HugeLiteral, "0.5", "1", HugeLiteral>>
    /\ out = call.selector \o "[x=-1.5,y=0,z=" \o HugeLiteral \o ",dx=1,dy=1,dz=NaN]"

(***************************************************************************)
(* C5.  Scanning "@e[111 200 333 100 222 300]" gives exactly one rewrite.  *)
(* As claimed, its text is "@e[x=100,y=200,z=300,dx=11,dy=0,dz=33]"        *)
(* (Cex_C5).  As amended, it is "@e[x=100,y=200,z=300,dx=11,dy=22,dz=33]": *)
(* 200 and 222 differ by 22 (Thm_C5).  Both the command and the            *)
(* completion provider are covered.                                        *)
(***************************************************************************)
ScenarioText == "@e[111 200 333 100 222 300]"

ScenarioSelected == selections = <<[start |-> 0, end |-> Len(ScenarioText)]>>

ScenarioRewrite(converted) ==
    /\ (Recorded /\ docBefore = ScenarioText /\ ScenarioSelected) =>
          /\ Len(edits) = 1
          /\ edits[1].text = converted
          /\ edits[1].start = 0
          /\ edits[1].end = Len(ScenarioText)
    /\ (/\ asked
        /\ run = 1
        /\ pc = "idle"
        /\ doc = ScenarioText
        /\ ScenarioSelected
        /\ EndsWith(fileName, ".mcfunction")) =>
          /\ Len(items) = 1
          /\ items[1].insertText = converted

Cex_C5 == ScenarioRewrite("@e[x=100,y=200,z=300,dx=11,dy=0,dz=33]")

Thm_C5 == ScenarioRewrite("@e[x=100,y=200,z=300,dx=11,dy=22,dz=33]")

Wit_C5 ==
    /\ pc = "done"
    /\ applied = "ok"
    /\ docBefore = ScenarioText
    /\ ScenarioSelected
    /\ Len(edits) = 1
    /\ doc = "@e[x=100,y=200,z=300,dx=11,dy=22,dz=33]"

(***************************************************************************)
(* C6.  Each of the three deltas the ranged converter writes is a          *)
(* non-negative integer, for every sextuplet of literals, negative and     *)
(* decimal ones included (Cex_C6).  A literal of 310 digits is read as     *)
(* Infinity and its delta is written as Infinity or NaN.                   *)
(***************************************************************************)
Cex_C6 ==
    Ranged => \A a \in 1..3 : IsNatText(Field(out, DeltaKeys[a]))

(***************************************************************************)
(* C7.  An invocation of the command ends in exactly one outcome: (1) the  *)
(* file is no .mcfunction file: the scope message, no replacement          *)
(* recorded or applied; (2) the edit fails: the error message; (3) the     *)
(* edit succeeds with no replacement recorded: the "nothing to convert"    *)
(* message; (4) the edit succeeds with a replacement: no message.  No      *)
(* message is shown while the edit is pending.                             *)
(***************************************************************************)
Thm_C7 ==
    /\ pc = "applying" => messages = <<>>
    /\ pc = "done" =>
          IF fileName # "a.mcfunction"
          THEN /\ messages = <<"scope">>
               /\ edits = <<>>
               /\ applied = "none"
               /\ doc = docBefore
          ELSE /\ applied \in {"ok", "failed"}
               /\ applied = "failed" => (messages = <<"error">> /\ doc = docBefore)
               /\ (applied = "ok" /\ Len(edits) = 0) => messages = <<"nothing">>
               /\ (applied = "ok" /\ Len(edits) > 0) => messages = <<>>

Wit_C7 ==
    /\ pc = "done"
    /\ fileName = "a.mcfunction"
    /\ applied = "ok"
    /\ Len(edits) = 0
    /\ messages = <<"nothing">>
    /\ Len(selections) = 2
    /\ run = 1

(***************************************************************************)
(* C8.  Idempotence: the scanner finds no match in a text produced by      *)
(* either converter, nor in a text in which every match has been replaced  *)
(* by its conversion; a second run over such a document records nothing.   *)
(***************************************************************************)
\* The replacements are looked at when the command has just recorded them
\* and the items when the provider has just returned them: neither changes
\* afterwards.
Thm_C8 ==
    /\ pc = "applying" => \A i \in 1..Len(edits) : NoMatches(edits[i].text)
    /\ (pc = "idle" /\ asked) => \A i \in 1..Len(items) : NoMatches(items[i].insertText)
    /\ (pc = "idle" /\ run = 1 /\ ~asked) => NoMatches(ReplaceAll(doc))
    /\ (pc = "applying" /\ run >= 2 /\ docBefore = ReplaceAll(firstDoc)) => edits = <<>>

Wit_C8 ==
    /\ pc = "done"
    /\ run = 2
    /\ applied = "ok"
    /\ docBefore = ReplaceAll(firstDoc)
    /\ Len(Matches(firstDoc, 6)) >= 1
    /\ Len(Matches(firstDoc, 3)) >= 1
    /\ edits = <<>>
    /\ messages = <<"nothing">>

(***************************************************************************)
(* C9.  Order of the results (completion items, and the replacements       *)
(* recorded for one selection).  As claimed, document order: a match       *)
(* that starts earlier comes first (Cex_C9).  As amended, document order   *)
(* within each pattern, every 6-number result before every 3-number        *)
(* result (Thm_C9).                                                        *)
(***************************************************************************)
InDocumentOrder(rs) ==
    \A i, j \in 1..Len(rs) : i < j => rs[i].index < rs[j].index

InPassOrder(rs) ==
    \A i, j \in 1..Len(rs) :
       i < j => /\ rs[i].n = rs[j].n => rs[i].index < rs[j].index
                /\ rs[i].n = 3 => rs[j].n = 3

Cex_C9 ==
    /\ InDocumentOrder(items)
    /\ \A si \in 1..Len(selections) : InDocumentOrder(EditsOf(si))

Thm_C9 ==
    /\ InPassOrder(items)
    /\ \A si \in 1..Len(selections) : InPassOrder(EditsOf(si))

Wit_C9 ==
    /\ Recorded
    /\ Len(selections) = 1
    /\ Len(edits) = 3
    /\ edits[1].n = 6
    /\ edits[2].n = 3
    /\ edits[3].n = 3
    /\ edits[2].index < edits[1].index
    /\ edits[1].index < edits[3].index

(***************************************************************************)
(* C10.  Cumulative offset correction within one pass: when all the        *)
(* replacements of a selection come from one pattern, then after the       *)
(* first k of them have been applied one after another, the range of       *)
(* replacement k + 1 covers exactly the still unmodified text of match     *)
(* k + 1, and applying all of them yields the text with every match        *)
(* replaced and every other character unchanged.                           *)
(***************************************************************************)
OnePattern(E) == \A i, j \in 1..Len(E) : E[i].n = E[j].n

\* in the buffer left by the first k replacements, replacement k + 1
\* covers its match, and what follows it is what followed it originally
CoversMatch(E, k, sel) ==
    LET buf == ApplyEdits(docBefore, E, k)
        e == E[k + 1]
        after == sel.start + e.index + Len(e.original)
    IN /\ 0 <= e.start
       /\ e.end <= Len(buf)
       /\ SubSeq(buf, e.start + 1, e.end) = e.original
       /\ SubSeq(buf, e.end + 1, Len(buf)) = SubSeq(docBefore, after + 1, Len(docBefore))

Thm_C10 ==
    Recorded =>
       \A si \in 1..Len(selections) :
          LET E == EditsOf(si)
          IN OnePattern(E) =>
                /\ \A k \in 0..(Len(E) - 1) : CoversMatch(E, k, selections[si])
                /\ ApplyEdits(docBefore, E, Len(E)) = Expected(docBefore, selections[si])

Wit_C10 ==
    /\ pc = "done"
    /\ applied = "ok"
    /\ Len(selections) = 1
    /\ selections[1].start > 0
    /\ Len(edits) = 2
    /\ OnePattern(edits)
    /\ edits[2].start < selections[1].start + edits[2].index
    /\ edits[2].start < edits[1].end
    /\ doc = Expected(docBefore, selections[1])
====
